---------------------------- MODULE Spec2Model ----------------------------
(***************************************************************************)
(* Model of the synthetic mental-health demand generator                   *)
(* (src/src/generate_mental_health_data.py).                               *)
(*                                                                         *)
(* Numbers.  The code computes with floats; the model computes with exact  *)
(* integers in fixed units, named where they are used:                     *)
(*   board multipliers      in twentieths   (2.5 -> 50, 0.15 -> 3)         *)
(*   base_demand            in units of 2.5 (50 * 0.15 = 7.5 -> 3)         *)
(*   seasonal_factor        in thousandths  (sin in thousandths)           *)
(*   day_factor, year_trend in twentieths   (1.3 -> 26, 0.85 -> 17)        *)
(*   covid_factor           in fifths       (1.4 -> 7, 1.2 -> 6)           *)
(*   weight vectors         in hundredths   (0.08 -> 8)                    *)
(* so that every product stays inside TLC's 32-bit integers.               *)
(*                                                                         *)
(* Dates are day numbers counted from 1970-01-01 (day 0), converted to and *)
(* from (year, month, day) by the proleptic Gregorian calendar, which is   *)
(* what pandas Timestamps do.                                              *)
(*                                                                         *)
(* Randomness.  numpy's generator is a deterministic function of its       *)
(* state: the module seeds it once, at import, and every draw reads and    *)
(* advances the one module-level state.  The model keeps that state in the *)
(* variable rng and advances it with a full-period linear congruential     *)
(* step.  Which stream the seed 42 expands to is not modelled bit for bit: *)
(* Init picks it from a family of streams (variable gen).  A draw decodes  *)
(* the state: Poisson into a total within 0..MaxT (any natural number has  *)
(* positive probability when lambda > 0), a multinomial into n categorical *)
(* picks by the cumulative weights.                                        *)
(***************************************************************************)
EXTENDS Integers, Sequences, FiniteSets, TLC

VARIABLES
    mode,     \* "library": a client imported the module and calls it;
              \* "script": the file runs as __main__; "probe": ExpectedSpec only
    gen,      \* which pseudo-random stream the seed expands to
    rng,      \* numpy's module-level generator state
    calls,    \* library: the calls of generate_time_series_data made so far
    pc,       \* script: "boards", "concat", "generated", "saved", "failed"
    all_data, \* script: generate_complete_dataset's list of per-board tables
    sampled,  \* script: what was drawn for each board in turn: per date its total,
              \* its counts per age bracket and, per bracket, per quintile
    df,       \* script: the table returned by generate_complete_dataset
    files,    \* script: the three artifacts, each "absent" or its rows
    probe     \* ExpectedSpec: the inputs and the running sums of a probe

vars == <<mode, gen, rng, calls, pc, all_data, sampled, df, files, probe>>

-----------------------------------------------------------------------------
(* Bounds of the model *)

\* Poisson totals are drawn from 0..MaxT.
MaxT == 3
\* A client asks for a date range of at most MaxDays days.
MaxDays == 3
\* A library session makes at most MaxCalls calls.
MaxCalls == 2
\* Streams 0..MaxGen are tried for the seed.
MaxGen == 2
\* The days of generate_complete_dataset's range, from 2019-01-01 (a Tuesday)
\* on: enough to reach a Saturday.
RunDays == 5

-----------------------------------------------------------------------------
(* Configuration: lines 10-44 *)

HEALTH_BOARDS ==
    << "NHS Ayrshire and Arran", "NHS Borders", "NHS Dumfries and Galloway",
       "NHS Fife", "NHS Forth Valley", "NHS Grampian",
       "NHS Greater Glasgow and Clyde", "NHS Highland", "NHS Lanarkshire",
       "NHS Lothian", "NHS Orkney", "NHS Shetland", "NHS Tayside",
       "NHS Western Isles" >>

AGE_GROUPS == << "0-17", "18-25", "26-35", "36-45", "46-55", "56-65", "66-75", "76+" >>

SIMD_QUINTILES == << 1, 2, 3, 4, 5 >>

PRESENTATION_TYPES ==
    << "Self Harm", "Suicidal Ideation", "Acute Anxiety", "Depression",
       "Psychosis", "Substance Abuse", "Eating Disorder", "Other" >>

\* In twentieths.
board_multipliers ==
    [b \in { HEALTH_BOARDS[i] : i \in 1..Len(HEALTH_BOARDS) } |->
        CASE b = "NHS Greater Glasgow and Clyde" -> 50
          [] b = "NHS Lothian" -> 40
          [] b = "NHS Lanarkshire" -> 30
          [] b = "NHS Grampian" -> 26
          [] b = "NHS Tayside" -> 24
          [] b = "NHS Fife" -> 20
          [] b = "NHS Ayrshire and Arran" -> 20
          [] b = "NHS Highland" -> 18
          [] b = "NHS Forth Valley" -> 16
          [] b = "NHS Dumfries and Galloway" -> 12
          [] b = "NHS Borders" -> 8
          [] b = "NHS Western Isles" -> 4
          [] b = "NHS Orkney" -> 3
          [] b = "NHS Shetland" -> 3]

\* In hundredths.
\* Line 87 with its last entry mistyped (0.01 for 0.02): the weights sum to
\* 0.99.
age_weights_mistyped == << 8, 25, 20, 15, 15, 10, 5, 1 >>

age_weights == << 8, 25, 20, 15, 15, 10, 5, 2 >>
simd_weights == << 35, 25, 20, 12, 8 >>
type_weights == << 18, 22, 15, 20, 8, 10, 3, 4 >>

-----------------------------------------------------------------------------
(* Calendar: pandas Timestamp.year, .month, .dayofweek, .isocalendar().week *)

\* The day number of year-month-day.
DateOf(year, month, day) ==
    LET y == IF month <= 2 THEN year - 1 ELSE year
        era == y \div 400
        yoe == y - era * 400
        mp == IF month > 2 THEN month - 3 ELSE month + 9
        doy == (153 * mp + 2) \div 5 + day - 1
        doe == yoe * 365 + yoe \div 4 - yoe \div 100 + doy
    IN  era * 146097 + doe - 719468

\* <<year, month, day>> of a day number.
Civil(date) ==
    LET z == date + 719468
        era == z \div 146097
        doe == z - era * 146097
        yoe == (doe - doe \div 1460 + doe \div 36524 - doe \div 146096) \div 365
        doy == doe - (365 * yoe + yoe \div 4 - yoe \div 100)
        mp == (5 * doy + 2) \div 153
        d == doy - (153 * mp + 2) \div 5 + 1
        m == IF mp < 10 THEN mp + 3 ELSE mp - 9
        y == yoe + era * 400 + (IF m <= 2 THEN 1 ELSE 0)
    IN  << y, m, d >>

YearOf(date) == Civil(date)[1]
MonthOf(date) == Civil(date)[2]

\* 0 = Monday .. 6 = Sunday; 1970-01-01 was a Thursday.
DayOfWeek(date) == (date + 3) % 7

\* The ISO 8601 week number.
WeekOfYear(date) ==
    LET thursday == date - DayOfWeek(date) + 3
        jan1 == DateOf(YearOf(thursday), 1, 1)
    IN  (thursday - jan1) \div 7 + 1

\* pd.date_range(start, end, freq='D'): every day of [start, end], none when
\* end is before start.
date_range(start_date, end_date) ==
    [i \in 1..(IF end_date >= start_date THEN end_date - start_date + 1 ELSE 0) |->
        start_date + i - 1]

-----------------------------------------------------------------------------
(* The expected count: lines 67-84 *)

\* 50 * board_multipliers.get(health_board, 1.0), in units of 2.5.
base_demand(health_board) ==
    LET multiplier == IF health_board \in DOMAIN board_multipliers
                      THEN board_multipliers[health_board]
                      ELSE 20
    IN  (50 * multiplier) \div 50

\* sin(2 * pi * k / 12) in thousandths, k in 0..11.
SinTwelfth(k) == << 0, 500, 866, 1000, 866, 500, 0, -500, -866, -1000, -866, -500 >>[k + 1]

\* 1.0 + 0.3 * sin(2 * pi * (month - 1) / 12 + pi), in thousandths, rounded:
\* adding pi is a shift by six twelfths of the circle.
seasonal_factor(month) ==
    1000 + (300 * SinTwelfth(((month - 1) + 6) % 12) + 500) \div 1000

\* In twentieths: 1.3, 1.1, 1.0, 1.0, 1.1, 0.9, 0.85.
day_factor(day_of_week) == << 26, 22, 20, 20, 22, 18, 17 >>[day_of_week + 1]

\* In fifths: 1.4, 1.2, 1.0.
covid_factor(year) ==
    IF 2020 <= year /\ year <= 2021 THEN 7
    ELSE IF year = 2022 THEN 6
    ELSE 5

\* 1.0 + 0.05 * (year - 2019), in twentieths.
year_trend(year) == 20 + (year - 2019)

\* base_demand * seasonal_factor * day_factor * covid_factor * year_trend:
\* the expected count times 800000 (2.5 / (1000 * 20 * 5 * 20) per unit).
expected_presentations(health_board, month, day_of_week, year) ==
    base_demand(health_board) * seasonal_factor(month) * day_factor(day_of_week)
        * covid_factor(year) * year_trend(year)

-----------------------------------------------------------------------------
(* numpy's generator: lines 7, 85, 88, 95, 102 *)

\* One step of the generator: full period over 0..65536.
RngNext(s) == (75 * s + 74) % 65537

\* np.random.seed(42), in stream g of the family.
SeedState(g) == (42 + 7919 * g) % 65537

\* np.random.poisson(lam): a ValueError when lam < 0, 0 when lam = 0, else a
\* total decoded from the state.
Poisson(lam, s) ==
    IF lam < 0 THEN [raised |-> "ValueError", value |-> 0, rng |-> s]
    ELSE IF lam = 0 THEN [raised |-> "none", value |-> 0, rng |-> RngNext(s)]
    ELSE [raised |-> "none", value |-> s % (MaxT + 1), rng |-> RngNext(s)]

RECURSIVE SumTo(_, _)
\* w[1] + ... + w[i]
SumTo(w, i) == IF i = 0 THEN 0 ELSE w[i] + SumTo(w, i - 1)

\* The category a uniform u in 0..99 falls in: the first whose cumulative
\* weight exceeds u; the last category takes what remains.
Categorical(pvals, u) ==
    IF \E i \in 1..Len(pvals) : SumTo(pvals, i) > u
    THEN CHOOSE i \in 1..Len(pvals) :
            /\ SumTo(pvals, i) > u
            /\ \A j \in 1..(i - 1) : SumTo(pvals, j) <= u
    ELSE Len(pvals)

RECURSIVE MultinomialFrom(_, _, _, _)
\* n picks added to counts, one generator step each.
MultinomialFrom(n, pvals, counts, s) ==
    IF n = 0 THEN [counts |-> counts, rng |-> s]
    ELSE LET c == Categorical(pvals, s % 100)
         IN  MultinomialFrom(n - 1, pvals, [counts EXCEPT ![c] = @ + 1], RngNext(s))

\* np.random.multinomial(n, pvals): the counts per category and the state after.
Multinomial(n, pvals, s) ==
    MultinomialFrom(n, pvals, [i \in 1..Len(pvals) |-> 0], s)

-----------------------------------------------------------------------------
(* generate_time_series_data: lines 46-117 *)

\* Lines 104-115 with the test `count > 0` written `count > 1`.
TypeRecordsAboveOne(date, health_board, age_idx, simd_idx, type_distributions) ==
    LET emitted == SelectSeq([i \in 1..Len(PRESENTATION_TYPES) |-> i],
                             LAMBDA i : type_distributions[i] > 1)
    IN  [k \in 1..Len(emitted) |->
            [date |-> date,
             health_board |-> health_board,
             age_group |-> AGE_GROUPS[age_idx],
             simd_quintile |-> SIMD_QUINTILES[simd_idx],
             presentation_type |-> PRESENTATION_TYPES[emitted[k]],
             presentations |-> type_distributions[emitted[k]]]]

\* Lines 104-115 without the test `count > 0`.
TypeRecordsUnfiltered(date, health_board, age_idx, simd_idx, type_distributions) ==
    [k \in 1..Len(PRESENTATION_TYPES) |->
        [date |-> date,
         health_board |-> health_board,
         age_group |-> AGE_GROUPS[age_idx],
         simd_quintile |-> SIMD_QUINTILES[simd_idx],
         presentation_type |-> PRESENTATION_TYPES[k],
         presentations |-> type_distributions[k]]]

\* Lines 104-115 appending one record per presentation, each counting 1,
\* instead of one record per presentation type.
TypeRecordsPerPresentation(date, health_board, age_idx, simd_idx, type_distributions) ==
    [k \in 1..SumTo(type_distributions, Len(type_distributions)) |->
        [date |-> date,
         health_board |-> health_board,
         age_group |-> AGE_GROUPS[age_idx],
         simd_quintile |-> SIMD_QUINTILES[simd_idx],
         presentation_type |->
            PRESENTATION_TYPES[CHOOSE t \in 1..Len(type_distributions) :
                                  /\ SumTo(type_distributions, t) >= k
                                  /\ \A u \in 1..(t - 1) : SumTo(type_distributions, u) < k],
         presentations |-> 1]]

\* Lines 104-115: one record per presentation type whose count is positive.
TypeRecords(date, health_board, age_idx, simd_idx, type_distributions) ==
    LET emitted == SelectSeq([i \in 1..Len(PRESENTATION_TYPES) |-> i],
                             LAMBDA i : type_distributions[i] > 0)
    IN  [k \in 1..Len(emitted) |->
            [date |-> date,
             health_board |-> health_board,
             age_group |-> AGE_GROUPS[age_idx],
             simd_quintile |-> SIMD_QUINTILES[simd_idx],
             presentation_type |-> PRESENTATION_TYPES[emitted[k]],
             presentations |-> type_distributions[emitted[k]]]]

\* The one element of a singleton: TheOne({ e(x) : x \in { v } }) is e with x
\* standing for v, v computed once.
TheOne(S) == CHOOSE y \in S : TRUE

RECURSIVE SimdLoop(_, _, _, _, _, _)
\* Lines 97-115, from quintile index simd_idx on.
SimdLoop(date, health_board, age_idx, simd_distributions, simd_idx, s) ==
    IF simd_idx > Len(SIMD_QUINTILES) THEN [data |-> << >>, rng |-> s]
    ELSE IF simd_distributions[simd_idx] > 0
    THEN TheOne({ [SimdLoop(date, health_board, age_idx, simd_distributions,
                            simd_idx + 1, types.rng)
                     EXCEPT !.data = TypeRecords(date, health_board, age_idx, simd_idx,
                                                 types.counts) \o @] :
            types \in { Multinomial(simd_distributions[simd_idx], type_weights, s) } })
    ELSE SimdLoop(date, health_board, age_idx, simd_distributions, simd_idx + 1, s)

RECURSIVE AgeLoop(_, _, _, _, _)
\* Lines 90-115, from age index age_idx on.  simds holds, for each age
\* bracket in turn, the quintile counts drawn for it (all 0 where the
\* bracket is empty and nothing is drawn).
AgeLoop(date, health_board, age_distributions, age_idx, s) ==
    IF age_idx > Len(AGE_GROUPS) THEN [data |-> << >>, simds |-> << >>, rng |-> s]
    ELSE IF age_distributions[age_idx] > 0
    THEN TheOne({ TheOne({ [AgeLoop(date, health_board, age_distributions,
                                    age_idx + 1, inner.rng)
                             EXCEPT !.data = inner.data \o @,
                                    !.simds = << simd.counts >> \o @] :
                inner \in { SimdLoop(date, health_board, age_idx, simd.counts, 1, simd.rng) } }) :
            simd \in { Multinomial(age_distributions[age_idx], simd_weights, s) } })
    ELSE [AgeLoop(date, health_board, age_distributions, age_idx + 1, s)
            EXCEPT !.simds = << [i \in 1..Len(SIMD_QUINTILES) |-> 0] >> \o @]

\* Lines 70-85: the day's total, max(0, int(np.random.poisson(expected))).
DayTotal(date, health_board, s) ==
    [Poisson(expected_presentations(health_board, MonthOf(date), DayOfWeek(date),
                                    YearOf(date)), s)
        EXCEPT !.value = IF @ > 0 THEN @ ELSE 0]

RECURSIVE DateLoop(_, _, _, _)
\* Lines 86-115 for one date whose total was drawn, then the dates after it.
DayAndRest(dates, i, health_board, total) ==
    TheOne({ TheOne({ TheOne({
                IF rest.raised # "none"
                THEN rest
                ELSE [raised |-> "none",
                      data |-> day.data \o rest.data,
                      totals |-> << total.value >> \o rest.totals,
                      ages |-> << ages.counts >> \o rest.ages,
                      simds |-> << day.simds >> \o rest.simds,
                      rng |-> rest.rng] :
                rest \in { DateLoop(dates, i + 1, health_board, day.rng) } }) :
            day \in { AgeLoop(dates[i], health_board, ages.counts, 1, ages.rng) } }) :
        ages \in { Multinomial(total.value, age_weights, total.rng) } })

\* Lines 69-115, from the i-th date on.  raised is "none" or the exception
\* that ended the loop (and then nothing is returned); totals, ages and simds
\* hold what was drawn for each date: its total, its counts per age bracket
\* and, per age bracket, its counts per quintile.
DateLoop(dates, i, health_board, s) ==
    IF i > Len(dates)
    THEN [raised |-> "none", data |-> << >>, totals |-> << >>, ages |-> << >>,
          simds |-> << >>, rng |-> s]
    ELSE TheOne({ IF total.raised # "none"
                  THEN [raised |-> total.raised, data |-> << >>, totals |-> << >>,
                        ages |-> << >>, simds |-> << >>, rng |-> total.rng]
                  ELSE DayAndRest(dates, i, health_board, total) :
            total \in { DayTotal(dates[i], health_board, s) } })

\* The call as a whole: what it raised, the records of the returned table
\* (none when it raised), the totals it drew and the generator state it left.
generate_time_series_data(start_date, end_date, health_board, s) ==
    DateLoop(date_range(start_date, end_date), 1, health_board, s)

-----------------------------------------------------------------------------
(* generate_complete_dataset: lines 119-150 *)

\* Line 123.
start_date == DateOf(2019, 1, 1)

\* Line 124: 2024-10-31 in the code, cut to RunDays days.
end_date ==
    IF start_date + RunDays - 1 < DateOf(2024, 10, 31)
    THEN start_date + RunDays - 1
    ELSE DateOf(2024, 10, 31)

RECURSIVE Concat(_)
\* Line 133: pd.concat(all_data, ignore_index=True).
Concat(tables) ==
    IF tables = << >> THEN << >> ELSE Head(tables) \o Concat(Tail(tables))

RECURSIVE RowsByDate(_, _, _)
\* The rows dated first..last, date by date, each date's rows in their order.
RowsByDate(rows, first, last) ==
    IF first > last THEN << >>
    ELSE SelectSeq(rows, LAMBDA r : r.date = first) \o RowsByDate(rows, first + 1, last)

\* Line 134 with the sorted frame thrown away: the rows stay as concatenated.
SortByDateDiscarded(rows) == rows

\* Line 134: df.sort_values('date').  pandas leaves the order of rows of one
\* date to its sorting algorithm; the model keeps them in their order.
SortByDate(rows) ==
    IF rows = << >> THEN << >>
    ELSE LET dates == { rows[i].date : i \in 1..Len(rows) }
             first == CHOOSE d \in dates : \A e \in dates : d <= e
             last == CHOOSE d \in dates : \A e \in dates : e <= d
         IN  RowsByDate(rows, first, last)

\* Lines 136-140: the derived calendar columns of one row.
WithCalendar(r) ==
    [date |-> r.date,
     health_board |-> r.health_board,
     age_group |-> r.age_group,
     simd_quintile |-> r.simd_quintile,
     presentation_type |-> r.presentation_type,
     presentations |-> r.presentations,
     year |-> YearOf(r.date),
     month |-> MonthOf(r.date),
     day_of_week |-> DayOfWeek(r.date),
     week_of_year |-> WeekOfYear(r.date),
     is_weekend |-> IF DayOfWeek(r.date) \in {5, 6} THEN 1 ELSE 0]

\* Lines 133-150, on the tables of the boards.  A frame concatenated from
\* empty frames has no 'date' column, and sorting it by 'date' raises a
\* KeyError.
complete_dataset(tables) ==
    TheOne({ IF rows = << >>
             THEN [raised |-> "KeyError", df |-> << >>]
             ELSE [raised |-> "none", df |-> [i \in 1..Len(rows) |-> WithCalendar(rows[i])]] :
        rows \in { SortByDate(Concat(tables)) } })

-----------------------------------------------------------------------------
(* save_data: lines 152-174 *)

RECURSIVE SumPresentations(_)
\* The sum of the 'presentations' column.
SumPresentations(rows) ==
    IF rows = << >> THEN 0
    ELSE rows[1].presentations + SumPresentations(Tail(rows))

\* Where a health board sorts among the others: HEALTH_BOARDS is in
\* alphabetical order; any other name is taken to sort after them.
BoardRank(health_board) ==
    IF \E i \in 1..Len(HEALTH_BOARDS) : HEALTH_BOARDS[i] = health_board
    THEN CHOOSE i \in 1..Len(HEALTH_BOARDS) : HEALTH_BOARDS[i] = health_board
    ELSE Len(HEALTH_BOARDS) + 1

\* AGE_GROUPS is in alphabetical order too.
AgeRank(age_group) == CHOOSE i \in 1..Len(AGE_GROUPS) : AGE_GROUPS[i] = age_group

\* The first and the last date of a table that has rows.
FirstDate(table) ==
    CHOOSE d \in { table[i].date : i \in 1..Len(table) } :
        \A i \in 1..Len(table) : d <= table[i].date
LastDate(table) ==
    CHOOSE d \in { table[i].date : i \in 1..Len(table) } :
        \A i \in 1..Len(table) : table[i].date <= d

DailyKey(r) == << r.date, BoardRank(r.health_board) >>

\* Every (date, board rank) from the first date to the last, in ascending
\* order: groupby sorts its group keys.
DailyKeys(table) ==
    LET boards == Len(HEALTH_BOARDS) + 1
    IN  [k \in 1..((LastDate(table) - FirstDate(table) + 1) * boards) |->
            << FirstDate(table) + (k - 1) \div boards, ((k - 1) % boards) + 1 >>]

\* Lines 156-158 with agg 'count' for 'sum'.
DailySummaryCount(table) ==
    IF table = << >> THEN << >>
    ELSE TheOne({ [k \in 1..Len(keys) |->
                    TheOne({ [date |-> group[1].date,
                              health_board |-> group[1].health_board,
                              presentations |-> Len(group)] :
                        group \in { SelectSeq(table, LAMBDA r : DailyKey(r) = keys[k]) } })] :
            keys \in { SelectSeq(DailyKeys(table),
                                 LAMBDA key : \E i \in 1..Len(table) :
                                                  DailyKey(table[i]) = key) } })

\* Lines 156-158 grouping by 'date' alone.
DailySummaryByDate(table) ==
    IF table = << >> THEN << >>
    ELSE [k \in 1..(LastDate(table) - FirstDate(table) + 1) |->
            TheOne({ [date |-> FirstDate(table) + k - 1,
                      health_board |-> IF group = << >> THEN table[1].health_board
                                       ELSE group[1].health_board,
                      presentations |-> SumPresentations(group)] :
                group \in { SelectSeq(table, LAMBDA r : r.date = FirstDate(table) + k - 1) } })]

\* Lines 156-158: groupby(['date', 'health_board']).agg(sum).reset_index():
\* one row per (date, health_board) that has rows in the table.
DailySummary(table) ==
    IF table = << >> THEN << >>
    ELSE TheOne({ [k \in 1..Len(keys) |->
                    TheOne({ [date |-> group[1].date,
                              health_board |-> group[1].health_board,
                              presentations |-> SumPresentations(group)] :
                        group \in { SelectSeq(table, LAMBDA r : DailyKey(r) = keys[k]) } })] :
            keys \in { SelectSeq(DailyKeys(table),
                                 LAMBDA key : \E i \in 1..Len(table) :
                                                  DailyKey(table[i]) = key) } })

\* date.dt.to_period('M').astype(str) is 'YYYY-MM', which sorts as the
\* count of months year * 12 + month - 1 does.
MonthIndex(date) == YearOf(date) * 12 + MonthOf(date) - 1

MonthlyKey(r) ==
    << MonthIndex(r.date), BoardRank(r.health_board), AgeRank(r.age_group), r.simd_quintile >>

\* Every (month, board rank, age rank, quintile) from the first month to the
\* last, in ascending order.
MonthlyKeys(table) ==
    LET boards == Len(HEALTH_BOARDS) + 1
        ages == Len(AGE_GROUPS)
        simds == Len(SIMD_QUINTILES)
        months == MonthIndex(LastDate(table)) - MonthIndex(FirstDate(table)) + 1
    IN  [k \in 1..(months * boards * ages * simds) |->
            << MonthIndex(FirstDate(table)) + (k - 1) \div (boards * ages * simds),
               (((k - 1) \div (ages * simds)) % boards) + 1,
               (((k - 1) \div simds) % ages) + 1,
               ((k - 1) % simds) + 1 >>]

\* Lines 163-171: the sum by (month, health_board, age_group, simd_quintile);
\* month is <<year, month>> for 'YYYY-MM'.
MonthlySummary(table) ==
    IF table = << >> THEN << >>
    ELSE TheOne({ [k \in 1..Len(keys) |->
                    TheOne({ [month |-> << YearOf(group[1].date), MonthOf(group[1].date) >>,
                              health_board |-> group[1].health_board,
                              age_group |-> group[1].age_group,
                              simd_quintile |-> group[1].simd_quintile,
                              presentations |-> SumPresentations(group)] :
                        group \in { SelectSeq(table, LAMBDA r : MonthlyKey(r) = keys[k]) } })] :
            keys \in { SelectSeq(MonthlyKeys(table),
                                 LAMBDA key : \E i \in 1..Len(table) :
                                                  MonthlyKey(table[i]) = key) } })

FileNames == << "full", "daily_summary", "monthly_summary" >>

\* What save_data writes, in the order it writes it: lines 153, 160, 173.
Artifacts(table) == << table, DailySummary(table), MonthlySummary(table) >>

\* The files after save_data(table) whose first `written` to_csv calls
\* succeeded: a to_csv that raises ends save_data, and nothing removes what
\* the earlier ones wrote.
save_data(table, before, written) ==
    [f \in DOMAIN before |->
        IF \E k \in 1..written : FileNames[k] = f
        THEN [written |-> TRUE,
              rows |-> Artifacts(table)[CHOOSE k \in 1..written : FileNames[k] = f]]
        ELSE before[f]]

-----------------------------------------------------------------------------
(* The inputs tried *)

\* A name that is no key of board_multipliers.
UnknownBoard == "Unknown Board"

BoardInputs == { "NHS Orkney", UnknownBoard }

\* The last day of 1998 (year_trend below 0), the last day of 1999
\* (year_trend 0, positive from the next day on) and the last Monday of 2019.
StartDates == { DateOf(1998, 12, 31), DateOf(1999, 12, 31), DateOf(2019, 12, 30) }

ProbeYears == 2019..2024

AllBoards == { HEALTH_BOARDS[i] : i \in 1..Len(HEALTH_BOARDS) } \cup { UnknownBoard }

-----------------------------------------------------------------------------
(* The state machine *)

NoFiles == [f \in { FileNames[k] : k \in 1..Len(FileNames) } |->
               [written |-> FALSE, rows |-> << >>]]

NoProbe == [health_board |-> UnknownBoard, year |-> 0, day_of_week |-> 0,
            month |-> 0, winter |-> 0, summer |-> 0]

\* The module has just been imported: lines 6-8 have seeded the generator.
Init ==
    /\ mode \in { "library", "script" }
    /\ gen \in 0..MaxGen
    /\ rng = SeedState(gen)
    /\ calls = << >>
    /\ pc = "boards"
    /\ all_data = << >>
    /\ sampled = << >>
    /\ df = << >>
    /\ files = NoFiles
    /\ probe = NoProbe

\* A client calls generate_time_series_data(start, start + days - 1, board);
\* days = 0 asks for a range that ends the day before it starts.
CallGenerate ==
    /\ mode = "library"
    /\ Len(calls) < MaxCalls
    /\ \E start \in StartDates, days \in 0..MaxDays, board \in BoardInputs :
        \E result \in { generate_time_series_data(start, start + days - 1, board, rng) } :
            /\ calls' = Append(calls,
                    [start_date |-> start,
                     end_date |-> start + days - 1,
                     health_board |-> board,
                     rng_before |-> rng,
                     raised |-> result.raised,
                     data |-> result.data,
                     totals |-> result.totals,
                     ages |-> result.ages,
                     simds |-> result.simds])
            /\ rng' = result.rng
    /\ UNCHANGED << mode, gen, pc, all_data, sampled, df, files, probe >>

\* The client starts a new interpreter and imports the module again, to
\* call it there: lines 6-8 seed the generator anew.
Reimport ==
    /\ mode = "library"
    /\ Len(calls) < MaxCalls
    /\ rng # SeedState(gen)
    /\ rng' = SeedState(gen)
    /\ UNCHANGED << mode, gen, calls, pc, all_data, sampled, df, files, probe >>

\* Lines 177 and 128-131: generate_complete_dataset's loop, one board at a
\* time.  Each call reads the generator where the one before left it; an
\* exception in a call ends the run.
GenerateBoard ==
    /\ mode = "script"
    /\ pc = "boards"
    /\ \E result \in { generate_time_series_data(start_date, end_date,
                                                 HEALTH_BOARDS[Len(all_data) + 1], rng) } :
        /\ rng' = result.rng
        /\ IF result.raised # "none"
           THEN /\ pc' = "failed"
                /\ UNCHANGED << all_data, sampled >>
           ELSE /\ all_data' = Append(all_data, result.data)
                /\ sampled' = Append(sampled, [totals |-> result.totals,
                                            ages |-> result.ages,
                                            simds |-> result.simds])
                /\ pc' = IF Len(all_data') = Len(HEALTH_BOARDS) THEN "concat" ELSE "boards"
    /\ UNCHANGED << mode, gen, calls, df, files, probe >>

\* Lines 133-150: the rest of generate_complete_dataset, once every board
\* has its table.
CompleteDataset ==
    /\ mode = "script"
    /\ pc = "concat"
    /\ \E result \in { complete_dataset(all_data) } :
        /\ pc' = IF result.raised = "none" THEN "generated" ELSE "failed"
        /\ df' = result.df
    /\ UNCHANGED << mode, gen, rng, calls, all_data, sampled, files, probe >>

\* Line 178: save_data(df); each of its three to_csv calls may raise an
\* OSError (the data directory missing, the disk full), which ends the run.
RunSaveData ==
    /\ mode = "script"
    /\ pc = "generated"
    /\ \E written \in 0..Len(FileNames) :
        /\ files' = save_data(df, files, written)
        /\ pc' = IF written = Len(FileNames) THEN "saved" ELSE "failed"
    /\ UNCHANGED << mode, gen, rng, calls, all_data, sampled, df, probe >>

Next ==
    \/ CallGenerate
    \/ Reimport
    \/ GenerateBoard
    \/ CompleteDataset
    \/ RunSaveData

Spec == Init /\ [][Next]_vars

-----------------------------------------------------------------------------
(* The expected count as a function of the month: a probe of lines 74-84 *)

ExpectedInit ==
    /\ mode = "probe"
    /\ gen = 0
    /\ rng = SeedState(0)
    /\ calls = << >>
    /\ pc = "boards"
    /\ all_data = << >>
    /\ sampled = << >>
    /\ df = << >>
    /\ files = NoFiles
    /\ \E board \in AllBoards, year \in ProbeYears, day_of_week \in 0..6 :
        probe = [health_board |-> board, year |-> year, day_of_week |-> day_of_week,
                 month |-> 0, winter |-> 0, summer |-> 0]

\* The expected count of the next month, added to the sum of January-March
\* or of June-August when the month is one of them.
AccumulateMonth ==
    /\ mode = "probe"
    /\ probe.month < 12
    /\ LET month == probe.month + 1
           expected == expected_presentations(probe.health_board, month,
                                              probe.day_of_week, probe.year)
       IN  probe' = [probe EXCEPT
                        !.month = month,
                        !.winter = IF month \in 1..3 THEN @ + expected ELSE @,
                        !.summer = IF month \in 6..8 THEN @ + expected ELSE @]
    /\ UNCHANGED << mode, gen, rng, calls, pc, all_data, sampled, df, files >>

ExpectedSpec == ExpectedInit /\ [][AccumulateMonth]_vars

-----------------------------------------------------------------------------
(* Properties *)

\* w[1] + ... + w[Len(w)]
SumOf(w) == SumTo(w, Len(w))

\* The dates a call was asked for.
CallDates(c) == date_range(c.start_date, c.end_date)

\* The rows of a table dated `date`.
OnDate(table, date) == SelectSeq(table, LAMBDA r : r.date = date)

\* The presentations of the rows of a table for one age bracket and quintile.
InCell(table, age_idx, simd_idx) ==
    SumPresentations(SelectSeq(table, LAMBDA r :
        /\ r.age_group = AGE_GROUPS[age_idx]
        /\ r.simd_quintile = SIMD_QUINTILES[simd_idx]))

\* What C1 says of one call: `drawn` holds what the call drew for each of
\* `dates`, `table` the records it returned.
Conserved(dates, drawn, table) ==
    /\ Len(drawn.totals) = Len(dates)
    /\ \A i \in 1..Len(dates) :
        LET rows == OnDate(table, dates[i])
        IN  /\ SumOf(drawn.ages[i]) = drawn.totals[i]
            /\ \A a \in 1..Len(AGE_GROUPS) :
                /\ SumOf(drawn.simds[i][a]) = drawn.ages[i][a]
                /\ \A q \in 1..Len(SIMD_QUINTILES) :
                    InCell(rows, a, q) = drawn.simds[i][a][q]
            /\ SumPresentations(rows) = drawn.totals[i]

\* C1: totals are conserved at every level of the disaggregation.  In every
\* call of generate_time_series_data that returned (a client's, or one of
\* generate_complete_dataset's), for every date of its range: the counts per
\* age bracket sum to the date's total, the counts per quintile of each age
\* bracket sum to the bracket's count, the records of each (age bracket,
\* quintile) sum to that quintile's count, and the records of the date sum
\* to the total.  A client's call is looked at in the states where it is the
\* latest: each call is, in the state it returns to.
C1_TotalsConserved ==
    /\ (calls # << >> /\ calls[Len(calls)].raised = "none")
        => Conserved(CallDates(calls[Len(calls)]), calls[Len(calls)], calls[Len(calls)].data)
    /\ \A b \in 1..Len(all_data) :
        Conserved(date_range(start_date, end_date), sampled[b], all_data[b])

\* C1 witness: a board's table has a date whose total of 3 is split over two
\* age brackets, one of them with a single record of 2.
C1_Witness ==
    \E b \in 1..Len(all_data) : \E i \in 1..Len(sampled[b].totals) :
        /\ sampled[b].totals[i] = 3
        /\ \E a1, a2 \in 1..Len(AGE_GROUPS) :
            a1 # a2 /\ sampled[b].ages[i][a1] = 2 /\ sampled[b].ages[i][a2] = 1
        /\ \E k \in 1..Len(all_data[b]) :
            /\ all_data[b][k].date = start_date + i - 1
            /\ all_data[b][k].presentations = 2

\* C2: every record of every table has presentations >= 1: the tables the
\* calls of generate_time_series_data returned, the per-board tables of
\* generate_complete_dataset and the full-grain table it returns.
C2_RecordsPositive ==
    /\ \A n \in 1..Len(calls) : \A k \in 1..Len(calls[n].data) :
        calls[n].data[k].presentations >= 1
    /\ \A b \in 1..Len(all_data) : \A k \in 1..Len(all_data[b]) :
        all_data[b][k].presentations >= 1
    /\ \A k \in 1..Len(df) : df[k].presentations >= 1

\* C2 witness: the full-grain table is built, and a date whose total is 1
\* (so that every leaf but one drew 0) left exactly one record in it.
C2_Witness ==
    /\ pc = "generated"
    /\ \E b \in 1..Len(sampled) : \E i \in 1..Len(sampled[b].totals) :
        /\ sampled[b].totals[i] = 1
        /\ Cardinality({ k \in 1..Len(df) :
                            /\ df[k].date = start_date + i - 1
                            /\ df[k].health_board = HEALTH_BOARDS[b] }) = 1

\* C3: determinism.  Any two calls of generate_time_series_data with the
\* same start date, end date and health board end alike and return the same
\* table, also when they are successive calls in one process that share the
\* generator seeded once at import.
C3_SameArgumentsSameTable ==
    \A m, n \in 1..Len(calls) :
        ( /\ calls[m].start_date = calls[n].start_date
          /\ calls[m].end_date = calls[n].end_date
          /\ calls[m].health_board = calls[n].health_board )
        => /\ calls[m].raised = calls[n].raised
           /\ calls[m].data = calls[n].data

\* C4: a call with a health board that is no key of board_multipliers raises
\* an error, returns no records, and no file is written.
C4_UnknownBoardRejected ==
    \A n \in 1..Len(calls) :
        calls[n].health_board \notin DOMAIN board_multipliers
        => /\ calls[n].raised # "none"
           /\ calls[n].data = << >>
           /\ files = NoFiles

\* C5: a call whose end date is before its start date raises an error
\* instead of returning an empty table.
C5_ReversedRangeRejected ==
    \A n \in 1..Len(calls) :
        calls[n].end_date < calls[n].start_date => calls[n].raised # "none"

\* C6: when the run has ended, normally or by a failure, either all three
\* files have been written or none has.
C6_AllOrNothing ==
    pc \in { "saved", "failed" }
    => \/ \A f \in DOMAIN files : files[f].written
       \/ \A f \in DOMAIN files : ~files[f].written

\* The expected count of a call's board on a date.
ExpectedOn(c, date) ==
    expected_presentations(c.health_board, MonthOf(date), DayOfWeek(date), YearOf(date))

\* C7: for every date of a call's range whose expected count is negative the
\* call does not raise, and the date's total is 0.
C7_NegativeExpectedClamped ==
    \A n \in 1..Len(calls) : \A i \in 1..Len(CallDates(calls[n])) :
        ExpectedOn(calls[n], CallDates(calls[n])[i]) < 0
        => /\ calls[n].raised = "none"
           /\ calls[n].totals[i] = 0

\* The rows of a table for one date and health board.
OfCell(table, date, health_board) ==
    SelectSeq(table, LAMBDA r : r.date = date /\ r.health_board = health_board)

\* C8: once save_data has written the daily summary, each of its rows holds
\* the sum of the full-grain records of its date and health board, which is
\* the total drawn for that board and date; and the daily summary and the
\* full table have the same grand total.
C8_DailyMatchesFull ==
    files["daily_summary"].written =>
        /\ \A k \in 1..Len(files["daily_summary"].rows) :
            LET row == files["daily_summary"].rows[k]
            IN  /\ row.presentations
                     = SumPresentations(OfCell(files["full"].rows, row.date, row.health_board))
                /\ row.presentations
                     = sampled[BoardRank(row.health_board)].totals[row.date - start_date + 1]
        /\ SumPresentations(files["daily_summary"].rows) = SumPresentations(files["full"].rows)

\* C8 witness: the daily summary is written and one of its rows sums two or
\* more full-grain records, one of them counting 2 or more.
C8_Witness ==
    /\ files["daily_summary"].written
    /\ \E k \in 1..Len(files["daily_summary"].rows) :
        LET row == files["daily_summary"].rows[k]
            cell == OfCell(files["full"].rows, row.date, row.health_board)
        IN  /\ Len(cell) >= 2
            /\ \E j \in 1..Len(cell) : cell[j].presentations >= 2

\* The rows of the written daily summary for the b-th board on the i-th date.
DailyRowsOf(b, i) ==
    { k \in 1..Len(files["daily_summary"].rows) :
        /\ files["daily_summary"].rows[k].date = start_date + i - 1
        /\ files["daily_summary"].rows[k].health_board = HEALTH_BOARDS[b] }

\* C9 as claimed: the daily summary has one row for every (date, health
\* board) of the range, also where the total drawn is 0.
C9_RowForEveryCell ==
    files["daily_summary"].written =>
        \A b \in 1..Len(HEALTH_BOARDS) : \A i \in 1..(end_date - start_date + 1) :
            Cardinality(DailyRowsOf(b, i)) = 1

\* C9 as amended: the daily summary has exactly one row for every (date,
\* health board) of the range whose total is at least 1, none for one whose
\* total is 0, and no other rows.
C9_RowIffPositiveTotal ==
    files["daily_summary"].written =>
        /\ \A b \in 1..Len(HEALTH_BOARDS) : \A i \in 1..(end_date - start_date + 1) :
            Cardinality(DailyRowsOf(b, i)) = IF sampled[b].totals[i] >= 1 THEN 1 ELSE 0
        /\ Len(files["daily_summary"].rows)
             = Cardinality({ cell \in (1..Len(HEALTH_BOARDS)) \X (1..(end_date - start_date + 1)) :
                                sampled[cell[1]].totals[cell[2]] >= 1 })

\* C9 witness: the daily summary is written for a run in which one board
\* drew 0 on one date and at least 1 on another.
C9_Witness ==
    /\ files["daily_summary"].written
    /\ \E b \in 1..Len(HEALTH_BOARDS) : \E i, j \in 1..(end_date - start_date + 1) :
        /\ sampled[b].totals[i] = 0
        /\ sampled[b].totals[j] >= 1
        /\ DailyRowsOf(b, i) = {}
        /\ DailyRowsOf(b, j) # {}

\* C10: for a fixed board, year and day of the week, the expected counts of
\* January, February and March sum to more than those of June, July and
\* August.
C10_WinterAboveSummer ==
    probe.month = 12 => probe.winter > probe.summer

\* A weight vector fits its labels: one weight per label, none negative, and
\* 100 hundredths in all.
FitsLabels(weights, labels) ==
    /\ Len(weights) = Len(labels)
    /\ \A i \in 1..Len(weights) : weights[i] >= 0
    /\ SumOf(weights) = 100

\* The three weight vectors of lines 87, 94 and 101 fit their labels.
WeightsFit ==
    /\ FitsLabels(age_weights, AGE_GROUPS)
    /\ FitsLabels(simd_weights, SIMD_QUINTILES)
    /\ FitsLabels(type_weights, PRESENTATION_TYPES)

\* The counts drawn for the dates of one call: one per age bracket and, for
\* each age bracket, one per quintile.
OnePerLabel(drawn) ==
    \A i \in 1..Len(drawn.ages) :
        /\ Len(drawn.ages[i]) = Len(AGE_GROUPS)
        /\ \A a \in 1..Len(AGE_GROUPS) : Len(drawn.simds[i][a]) = Len(SIMD_QUINTILES)

\* C11: the age weights, the quintile weights and the presentation-type
\* weights that generate_time_series_data draws with are each non-negative,
\* as long as their list of labels, and sum to exactly 1.0 (100 hundredths):
\* so it is once a call has been made, a client's or
\* generate_complete_dataset's, and the counts the latest call drew are one
\* per label.
C11_WeightsNormalised ==
    /\ (calls # << >> \/ sampled # << >>) => WeightsFit
    /\ calls # << >> => OnePerLabel(calls[Len(calls)])
    /\ sampled # << >> => OnePerLabel(sampled[Len(sampled)])

\* C11 witness: a call has drawn with all three weight vectors (it returned a
\* record, which takes a draw at each level), and a draw fell to the last
\* age bracket, the one that takes what the weights before it leave.
C11_Witness ==
    \E n \in 1..Len(calls) :
        /\ calls[n].raised = "none"
        /\ calls[n].data # << >>
        /\ \E i \in 1..Len(calls[n].ages) :
            calls[n].ages[i][Len(AGE_GROUPS)] >= 1

\* A row of the full-grain table without its derived columns: the record it
\* was made from.
Emitted(r) ==
    [date |-> r.date,
     health_board |-> r.health_board,
     age_group |-> r.age_group,
     simd_quintile |-> r.simd_quintile,
     presentation_type |-> r.presentation_type,
     presentations |-> r.presentations]

\* C12: the table generate_complete_dataset returns holds exactly the
\* records of one generate_time_series_data call per health board of
\* HEALTH_BOARDS, each as often as its call returned it; its rows are in
\* ascending order of date; and on every row year, month and day_of_week are
\* those of the row's date and is_weekend is 1 when day_of_week is 5 or 6,
\* else 0.
C12_CompleteDatasetSorted ==
    pc \in { "generated", "saved" } =>
        /\ Len(all_data) = Len(HEALTH_BOARDS)
        /\ \A b \in 1..Len(all_data) : \A k \in 1..Len(all_data[b]) :
            /\ all_data[b][k].health_board = HEALTH_BOARDS[b]
            /\ Cardinality({ j \in 1..Len(df) : Emitted(df[j]) = all_data[b][k] })
                 = Cardinality({ j \in 1..Len(all_data[b]) : all_data[b][j] = all_data[b][k] })
        /\ Len(df) = SumOf([b \in 1..Len(all_data) |-> Len(all_data[b])])
        /\ \A j \in 1..(Len(df) - 1) : df[j].date <= df[j + 1].date
        /\ \A j \in 1..Len(df) :
            /\ DateOf(df[j].year, df[j].month, 1) <= df[j].date
            /\ df[j].date < DateOf(df[j].year + (df[j].month \div 12), (df[j].month % 12) + 1, 1)
            /\ df[j].month \in 1..12
            /\ df[j].day_of_week = (df[j].date - DateOf(2018, 12, 31)) % 7
            /\ df[j].is_weekend = IF df[j].day_of_week \in { 5, 6 } THEN 1 ELSE 0

\* C12 witness: the table is built; a row of a later board stands before a
\* row of an earlier board dated later; and it has a row of Saturday
\* 2019-01-05 marked as weekend and a row of Friday 2019-01-04 that is not.
C12_Witness ==
    /\ pc = "generated"
    /\ \E i, j \in 1..Len(df) :
        /\ i < j
        /\ df[i].date < df[j].date
        /\ BoardRank(df[i].health_board) > BoardRank(df[j].health_board)
    /\ \E j \in 1..Len(df) :
        /\ df[j].date = DateOf(2019, 1, 5)
        /\ df[j].day_of_week = 5
        /\ df[j].is_weekend = 1
    /\ \E j \in 1..Len(df) :
        /\ df[j].date = DateOf(2019, 1, 4)
        /\ df[j].day_of_week = 4
        /\ df[j].is_weekend = 0

\* The key of a record: its leaf of the disaggregation tree.
LeafKey(r) ==
    << r.date, r.health_board, r.age_group, r.simd_quintile, r.presentation_type >>

\* No two rows of a table have the same key.
KeysUnique(table) ==
    \A i, j \in 1..Len(table) : LeafKey(table[i]) = LeafKey(table[j]) => i = j

\* C13: no two records of the full-grain table share (date, health_board,
\* age_group, simd_quintile, presentation_type); nor do two records of any
\* board's table it is concatenated from.
C13_LeafKeysUnique ==
    /\ KeysUnique(df)
    /\ \A b \in 1..Len(all_data) : KeysUnique(all_data[b])

\* C13 witness: the full-grain table is built; one leaf of it counts 2 or
\* more presentations in its single record, and two of its records differ
\* in nothing of their key but the presentation type.
C13_Witness ==
    /\ pc = "generated"
    /\ \E i \in 1..Len(df) : df[i].presentations >= 2
    /\ \E i, j \in 1..Len(df) :
        /\ df[i].date = df[j].date
        /\ df[i].health_board = df[j].health_board
        /\ df[i].age_group = df[j].age_group
        /\ df[i].simd_quintile = df[j].simd_quintile
        /\ df[i].presentation_type # df[j].presentation_type

=============================================================================
